---------------------------- MODULE Spec2Model ----------------------------
(***************************************************************************)
(* A model of the go-atlasScientific driver: the protocol engine of        *)
(* atlasScientific.go (Write, PerformRead, WriteReadParse, the guarded     *)
(* public operations) and the two sensor extensions (conductivity, ph).    *)
(*                                                                         *)
(* Bytes are naturals 0..255, strings are sequences of bytes (ASCII        *)
(* codes). Numbers (float32 arguments and parsed values) are fixed-point:  *)
(* an integer count of thousandths, so 0.1 is 100 and 10 is 10000.         *)
(***************************************************************************)
EXTENDS Integers, Sequences, FiniteSets, TLC

(***************************************************************************)
(* Bounds of the model.                                                    *)
(***************************************************************************)
NumCallers == 2          \* concurrent callers of the public operations
MaxPayloadLen == 2       \* length of the arbitrary payloads a frame may carry

(***************************************************************************)
(* Program constants.                                                      *)
(***************************************************************************)
FrameLen == 64           \* data := make([]byte, 64)
ERROR_VALUE == -1000     \* const ERROR_VALUE = -1 (in thousandths)
EC == 0
TDS == 1
Salinity == 2
SpecificGravity == 3

Channels == {EC, TDS, Salinity, SpecificGravity}

StatusOK == 1
StatusError == 2
StatusPending == 254
StatusNoData == 255

\* error values
Nil == "nil"
ErrWrite == "transport write error"
ErrRead == "transport read error"
ErrReadError == "Read error"
ErrPending == "Pending"
ErrNoData == "No Data"
ErrParseResponse == "Response could not be parsed"
ErrParseOutputParam == "Unable to parse output param"
ErrNoOutputParam == "Unable to find string output param"
ErrCountMismatch == "Output param count mis-match"
ErrSyntax == "strconv: invalid syntax"
ErrInvalidProbeType == "Invalid probe type"
ErrInvalidCalPoint == "Invalid calPoint value"
Panic == "panic: slice bounds out of range"

(***************************************************************************)
(* Strings of the protocol.                                                *)
(***************************************************************************)
Comma == <<44>>
CmdR == <<82>>                                          \* "R"
CmdSTATUS == <<83, 84, 65, 84, 85, 83>>                 \* "STATUS"
CmdI == <<73>>                                          \* "I"
CmdTQ == <<84, 44, 63>>                                 \* "T,?"
PfxT == <<84, 44>>                                      \* "T,"
CmdLQ == <<76, 44, 63>>                                 \* "L,?"
CmdL0 == <<76, 44, 48>>                                 \* "L,0"
CmdL1 == <<76, 44, 49>>                                 \* "L,1"
CmdCalClear == <<67, 65, 76, 44, 99, 108, 101, 97, 114>> \* "CAL,clear"
CmdCalQ == <<67, 65, 76, 44, 63>>                       \* "CAL,?"
PfxCal == <<67, 65, 76, 44>>                            \* "CAL,"
CmdCalDry == <<67, 65, 76, 44, 100, 114, 121>>          \* "CAL,dry"
CmdSLOPE == <<83, 76, 79, 80, 69>>                      \* "SLOPE"
CmdOQ == <<79, 44, 63>>                                 \* "O,?"
PfxO == <<79, 44>>                                      \* "O,"
CmdKQ == <<75, 44, 63>>                                 \* "K,?"
PfxK == <<75, 44>>                                      \* "K,"

Dry == <<100, 114, 121>>                                \* "dry"
One == <<111, 110, 101>>                                \* "one"
Low == <<108, 111, 119>>                                \* "low"
High == <<104, 105, 103, 104>>                          \* "high"
Mid == <<109, 105, 100>>                                \* "mid"

Min(S) == CHOOSE x \in S : \A y \in S : x <= y
Max(S) == CHOOSE x \in S : \A y \in S : x >= y

IsDigit(c) == c >= 48 /\ c <= 57

(***************************************************************************)
(* fmt.Sprintf verbs. %d of a non-negative int, and %f of a float32 (six   *)
(* decimals; a fixed-point number has at most three that are not zero).    *)
(***************************************************************************)
RECURSIVE Digits(_)
Digits(n) == IF n < 10 THEN <<48 + n>> ELSE Digits(n \div 10) \o <<48 + (n % 10)>>

Abs(n) == IF n < 0 THEN -n ELSE n

Sign(n) == IF n < 0 THEN <<45>> ELSE <<>>

\* the conversion rounding down
IntOf_Floor(v) == v \div 1000

\* int(x) of a float32: truncation toward zero
IntOf(v) == IF v < 0 THEN -(Abs(v) \div 1000) ELSE v \div 1000

FmtD(n) == Sign(n) \o Digits(Abs(n))

FmtF(v) ==
    LET a == Abs(v)
        f == a % 1000
    IN  Sign(v) \o Digits(a \div 1000) \o <<46>>
          \o <<48 + (f \div 100), 48 + ((f \div 10) % 10), 48 + (f % 10)>>
          \o <<48, 48, 48>>

(***************************************************************************)
(* strings.Split(s, ","): the fields between the commas; one (possibly     *)
(* empty) field when there is no comma.                                    *)
(***************************************************************************)
RECURSIVE Split(_)
Split(s) ==
    LET cs == {i \in 1..Len(s) : s[i] = 44}
    IN  IF cs = {} THEN <<s>>
        ELSE LET i == Min(cs)
             IN  <<SubSeq(s, 1, i - 1)>> \o Split(SubSeq(s, i + 1, Len(s)))

(***************************************************************************)
(* strconv.ParseFloat(s, 32) on decimal notation: an optional sign, digits *)
(* with an optional point, at least one digit. The value is in thousandths *)
(* (digits after the third decimal are beyond the model's precision).      *)
(***************************************************************************)
RECURSIVE DigitsVal(_)
DigitsVal(s) == IF s = <<>> THEN 0 ELSE 10 * DigitsVal(SubSeq(s, 1, Len(s) - 1)) + (s[Len(s)] - 48)

AllDigits(s) == \A i \in 1..Len(s) : IsDigit(s[i])

ParseFloat(s) ==
    LET neg  == s # <<>> /\ s[1] = 45
        body == IF s # <<>> /\ s[1] \in {43, 45} THEN Tail(s) ELSE s
        dots == {i \in 1..Len(body) : body[i] = 46}
        ip   == IF dots = {} THEN body ELSE SubSeq(body, 1, Min(dots) - 1)
        fp   == IF dots = {} THEN <<>> ELSE SubSeq(body, Min(dots) + 1, Len(body))
        fp3  == SubSeq(fp \o <<48, 48, 48>>, 1, 3)
        ok   == AllDigits(ip) /\ AllDigits(fp) /\ Len(ip) + Len(fp) > 0
        mag  == 1000 * DigitsVal(ip) + DigitsVal(fp3)
    IN  IF ok THEN [err |-> Nil, val |-> IF neg THEN -mag ELSE mag]
        ELSE [err |-> ErrSyntax, val |-> 0]

\* strconv.ParseInt(s, 10, 0) on an optional sign and digits
ParseInt(s) ==
    LET neg  == s # <<>> /\ s[1] = 45
        body == IF s # <<>> /\ s[1] \in {43, 45} THEN Tail(s) ELSE s
    IN  IF body # <<>> /\ AllDigits(body)
        THEN [err |-> Nil, val |-> IF neg THEN -DigitsVal(body) ELSE DigitsVal(body)]
        ELSE [err |-> ErrSyntax, val |-> 0]

\* strconv.ParseBool on the one character the pattern [01] lets through
ParseBool(s) ==
    IF s \in {<<49>>, <<116>>, <<84>>} THEN [err |-> Nil, val |-> 1]
    ELSE IF s \in {<<48>>, <<102>>, <<70>>} THEN [err |-> Nil, val |-> 0]
    ELSE [err |-> ErrSyntax, val |-> 0]


(***************************************************************************)
(* Regular expressions. The five patterns of atlasScientific.go and the    *)
(* three of the extensions are sequences of single-class elements in which *)
(* a greedy left-to-right match needs no backtracking. An element is a     *)
(* literal byte or a class, taken once, optionally or repeatedly, inside   *)
(* capture group grp (0: outside any group).                               *)
(***************************************************************************)
InClass(c, e) ==
    CASE e.cls = "lit"  -> c = e.ch
      [] e.cls = "d"    -> IsDigit(c)
      [] e.cls = "D"    -> ~IsDigit(c)
      [] e.cls = "w"    -> IsDigit(c) \/ (c >= 65 /\ c <= 90) \/ (c >= 97 /\ c <= 122) \/ c = 95
      [] e.cls = "01"   -> c \in {48, 49}
      [] e.cls = "any"  -> c # 10

Lit(str) == [i \in 1..Len(str) |-> [cls |-> "lit", ch |-> str[i], min |-> 1, many |-> FALSE, grp |-> 0]]
Once(cls, g) == <<[cls |-> cls, ch |-> 0, min |-> 1, many |-> FALSE, grp |-> g]>>
Plus(cls, g) == <<[cls |-> cls, ch |-> 0, min |-> 1, many |-> TRUE, grp |-> g]>>
Star(cls, g) == <<[cls |-> cls, ch |-> 0, min |-> 0, many |-> TRUE, grp |-> g]>>
OptDot(g) == <<[cls |-> "lit", ch |-> 46, min |-> 0, many |-> FALSE, grp |-> g]>>
\* \d+\.?\d* in group g
FloatPat(g) == Plus("d", g) \o OptDot(g) \o Star("d", g)

statusRegex == Lit(<<63, 83, 84, 65, 84, 85, 83, 44>>) \o Once("D", 1) \o Lit(Comma) \o FloatPat(2)
deviceInfoRegex == Lit(<<63, 73, 44>>) \o Plus("w", 1) \o Lit(Comma) \o FloatPat(2)
tempCompRegex == Lit(<<63, 84, 44>>) \o FloatPat(1)
ledStatRegex == Lit(<<63, 76, 44>>) \o Once("01", 1)
calRegex == Lit(<<63, 67, 65, 76, 44>>) \o Once("d", 1)
outputParamRegex == Lit(<<63, 79, 44>>) \o Star("any", 1)
probeTypeRegex == Lit(<<63, 75, 44>>) \o FloatPat(1)
slopeRegex == Lit(<<63, 83, 76, 79, 80, 69, 44>>) \o FloatPat(1) \o Lit(Comma) \o FloatPat(2)

\* how many bytes of s from position i element e takes
Run(s, i, e) ==
    LET avail == Len(s) - i + 1
        lim   == IF e.many THEN avail ELSE IF avail > 0 THEN 1 ELSE 0
        bad   == {j \in 0..(lim - 1) : ~InClass(s[i + j], e)}
    IN  IF bad = {} THEN lim ELSE Min(bad)

RECURSIVE MatchFrom(_, _, _, _, _)
MatchFrom(s, i, re, k, caps) ==
    IF k > Len(re) THEN [ok |-> TRUE, caps |-> caps]
    ELSE LET e == re[k]
             n == Run(s, i, e)
         IN  IF n < e.min THEN [ok |-> FALSE, caps |-> caps]
             ELSE MatchFrom(s, i + n, re, k + 1,
                     IF e.grp = 0 THEN caps
                     ELSE [caps EXCEPT ![e.grp] = @ \o SubSeq(s, i, i + n - 1)])

\* the leftmost match of re in s, with its two capture groups
FindStringSubmatchMap(re, s) ==
    LET none == <<<<>>, <<>>>>
        hits == {i \in 1..(Len(s) + 1) : MatchFrom(s, i, re, 1, none).ok}
    IN  IF hits = {} THEN [err |-> ErrParseResponse, caps |-> none]
        ELSE [err |-> Nil, caps |-> MatchFrom(s, Min(hits), re, 1, none).caps]

(***************************************************************************)
(* The protocol engine's pure parts.                                       *)
(***************************************************************************)
\* checkReadError without its case 254
checkReadError_NoPending(data) ==
    CASE data[1] = 2   -> 2
      [] data[1] = 255 -> 255
      [] OTHER         -> 0

\* checkReadError with the status of every ReadError 254
checkReadError_NoFailFast(data) ==
    CASE data[1] \in {2, 254, 255} -> 254
      [] OTHER                     -> 0

\* checkReadError: the status of the ReadError, 0 for nil
checkReadError(data) ==
    CASE data[1] = StatusOK      -> 0
      [] data[1] = StatusError   -> StatusError
      [] data[1] = StatusPending -> StatusPending
      [] data[1] = StatusNoData  -> StatusNoData
      [] OTHER                   -> 0

ReadErrorMessage(status) ==
    CASE status = StatusError   -> ErrReadError
      [] status = StatusPending -> ErrPending
      [] status = StatusNoData  -> ErrNoData

\* a trim that cuts every NUL
Trim_All(data) == SelectSeq(data, LAMBDA b : b # 0)

\* bytes.Trim(data, "\x00"): NULs are cut from both ends
Trim(data) ==
    LET nz == {i \in 1..Len(data) : data[i] # 0}
    IN  IF nz = {} THEN <<>> ELSE SubSeq(data, Min(nz), Max(nz))

\* string(trimData[1:]) of PerformRead; an empty trimData cannot be sliced
Payload(data) ==
    LET trimData == Trim(data)
    IN  IF Len(trimData) < 1 THEN [err |-> Panic, val |-> <<>>]
        ELSE [err |-> Nil, val |-> Tail(trimData)]

\* a frame of the transport: the status byte, the payload, NUL padding
MkFrame(status, payload) ==
    [i \in 1..FrameLen |->
        IF i = 1 THEN status
        ELSE IF i - 1 <= Len(payload) THEN payload[i - 1] ELSE 0]

(***************************************************************************)
(* The conductivity extension's tables and pure parts.                     *)
(***************************************************************************)
TokenOf(p) ==
    CASE p = EC              -> <<69, 67>>      \* "EC"
      [] p = TDS             -> <<84, 68, 83>>  \* "TDS"
      [] p = Salinity        -> <<83>>          \* "S"
      [] p = SpecificGravity -> <<83, 71>>      \* "SG"

\* p, ok := conductivityMeasurementToOutputParam[key]
conductivityMeasurementToOutputParam(key) ==
    IF key \in Channels THEN [ok |-> TRUE, tok |-> TokenOf(key)]
    ELSE [ok |-> FALSE, tok |-> <<>>]

\* the table with the channels of S and SG exchanged
outputParamToConductivityMeasurement_Swapped(s) ==
    CASE s = <<69, 67>>     -> [ok |-> TRUE, p |-> EC]
      [] s = <<84, 68, 83>> -> [ok |-> TRUE, p |-> TDS]
      [] s = <<83>>         -> [ok |-> TRUE, p |-> SpecificGravity]
      [] s = <<83, 71>>     -> [ok |-> TRUE, p |-> Salinity]
      [] OTHER              -> [ok |-> FALSE, p |-> EC]

\* p, ok := outputParamToConductivityMeasurement[s]
outputParamToConductivityMeasurement(s) ==
    CASE s = <<69, 67>>     -> [ok |-> TRUE, p |-> EC]
      [] s = <<84, 68, 83>> -> [ok |-> TRUE, p |-> TDS]
      [] s = <<83>>         -> [ok |-> TRUE, p |-> Salinity]
      [] s = <<83, 71>>     -> [ok |-> TRUE, p |-> SpecificGravity]
      [] OTHER              -> [ok |-> FALSE, p |-> EC]

NoVal == <<>>

\* GetOutputParameters leaving out the tokens the table does not have
GetOutputParametersParse_SkipUnknown(payload) ==
    LET m == FindStringSubmatchMap(outputParamRegex, payload)
        split == Split(m.caps[1])
        known == SelectSeq(split, LAMBDA t : outputParamToConductivityMeasurement(t).ok)
    IN  IF m.err # Nil THEN [err |-> m.err, val |-> NoVal]
        ELSE [err |-> Nil,
              val |-> [i \in 1..Len(known) |-> outputParamToConductivityMeasurement(known[i]).p]]

\* GetOutputParameters, from the payload of the O,? reply on
GetOutputParametersParse(payload) ==
    LET m == FindStringSubmatchMap(outputParamRegex, payload)
        split == Split(m.caps[1])
    IN  IF m.err # Nil THEN [err |-> m.err, val |-> NoVal]
        ELSE IF \E i \in 1..Len(split) : ~outputParamToConductivityMeasurement(split[i]).ok
        THEN [err |-> ErrParseOutputParam, val |-> NoVal]
        ELSE [err |-> Nil,
              val |-> [i \in 1..Len(split) |-> outputParamToConductivityMeasurement(split[i]).p]]

\* GetAllValues without the comparison of the two lengths
GetAllValuesResult_NoCount(outputParams, rawValue) ==
    LET data == Split(rawValue)
        n == IF Len(data) < Len(outputParams) THEN Len(data) ELSE Len(outputParams)
        keys == {outputParams[i] : i \in 1..n}
    IN  IF \E i \in 1..n : ParseFloat(data[i]).err # Nil
        THEN [err |-> ErrSyntax, val |-> NoVal]
        ELSE [err |-> Nil,
              val |-> [k \in keys |->
                         ParseFloat(data[Max({i \in 1..n : outputParams[i] = k})]).val]]

\* GetAllValues, from the fetched parameters and the raw value on
GetAllValuesResult(outputParams, rawValue) ==
    LET data == Split(rawValue)
        keys == {outputParams[i] : i \in 1..Len(outputParams)}
    IN  IF Len(data) # Len(outputParams) THEN [err |-> ErrCountMismatch, val |-> NoVal]
        ELSE IF \E i \in 1..Len(data) : ParseFloat(data[i]).err # Nil
        THEN [err |-> ErrSyntax, val |-> NoVal]
        ELSE [err |-> Nil,
              val |-> [k \in keys |->
                         ParseFloat(data[Max({i \in 1..Len(outputParams) : outputParams[i] = k})]).val]]

\* valMap[this.DefaultMeasurement]: the zero value for a missing key
MapLookup(valMap, k) == IF k \in DOMAIN valMap THEN valMap[k] ELSE 0

\* the check with 0 for its lower limit
ProbeTypeInvalid_Negative(probeType) == probeType < 0 \/ probeType > 10000

\* probeType < 0.1 || probeType > 10
ProbeTypeInvalid(probeType) == probeType < 100 \/ probeType > 10000

\* the check without "mid"
PHCalibrationInvalid_NoMid(calPoint) == calPoint # High /\ calPoint # Low

\* calPoint != "high" && calPoint != "mid" && calPoint != "low"
PHCalibrationInvalid(calPoint) == calPoint # High /\ calPoint # Mid /\ calPoint # Low

\* Conductivity.Calibration checks nothing before it writes
ConductivityCalibrationInvalid(calPoint) == FALSE

ConductivityCalibrationCmd(calPoint, ecValue) ==
    IF calPoint = Dry THEN CmdCalDry
    ELSE PfxCal \o calPoint \o Comma \o FmtD(IntOf(ecValue))

ConductivityCalibrationWait(calPoint) == IF calPoint = Dry THEN 2000 ELSE 1500

PHCalibrationCmd(calPoint, phValue) == PfxCal \o calPoint \o Comma \o FmtF(phValue)

ProbeTypeCmd(probeType) == PfxK \o FmtF(probeType)

\* the command with valStr left at "1"
OutputParametersCmd_AlwaysOn(key, value) ==
    PfxO \o conductivityMeasurementToOutputParam(key).tok \o Comma \o <<49>>

OutputParametersCmd(key, value) ==
    PfxO \o conductivityMeasurementToOutputParam(key).tok \o Comma
         \o (IF value THEN <<49>> ELSE <<48>>)

allOn == [p \in Channels |-> TRUE]

(***************************************************************************)
(* The operations. A handle is a Conductivity or a PH; kind is the type.   *)
(***************************************************************************)
BaseOps == {"GetRawValue", "GetStatus", "GetDeviceInfo", "GetTempCompensation",
            "TempCompensation", "GetLedStatus", "LedStatus", "ClearCalibration",
            "GetCalibrationCount"}
CondOps == BaseOps \cup {"Init", "GetValue", "GetAllValues", "GetOutputParameters",
            "OutputParameters", "GetProbeType", "ProbeType", "Calibration"}
PHOps == BaseOps \cup {"Init", "GetValue", "GetCalibrationSlope", "Calibration"}

Kind(h) == h
OpsOf(h) == IF Kind(h) = "cond" THEN CondOps ELSE PHOps

\* the operations that are sequences of guarded operations, not guarded themselves
Composite(kind, op) ==
    \/ op = "GetValue"
    \/ kind = "cond" /\ op \in {"GetAllValues", "Init"}

\* the guarded operation a call starts with
FirstInner(kind, op) ==
    CASE kind = "cond" /\ op \in {"GetValue", "GetAllValues"} -> "GetOutputParameters"
      [] kind = "cond" /\ op = "Init"                          -> "OutputParameters"
      [] kind = "ph" /\ op = "GetValue"                        -> "GetRawValue"
      [] OTHER                                                 -> op

\* the operations but GetRawValue
Guarded_NotGetRawValue(kind, inner) == inner \notin {"Init", "GetRawValue"}

\* the operations but OutputParameters
Guarded_NotOutputParameters(kind, inner) == inner \notin {"Init", "OutputParameters"}

\* this.Mtx.Lock(); defer this.Mtx.Unlock() opens the operation
Guarded(kind, inner) == inner # "Init"

\* the argument check an operation makes before it writes
Validate(kind, inner, arg) ==
    CASE kind = "cond" /\ inner = "ProbeType" /\ ProbeTypeInvalid(arg.num) -> ErrInvalidProbeType
      [] kind = "cond" /\ inner = "Calibration" /\ ConductivityCalibrationInvalid(arg.point)
                                                                    -> ErrInvalidCalPoint
      [] kind = "ph" /\ inner = "Calibration" /\ PHCalibrationInvalid(arg.point)
                                                                    -> ErrInvalidCalPoint
      [] OTHER -> Nil

\* the command an operation writes
Command(kind, inner, arg, key) ==
    CASE inner = "GetRawValue"         -> CmdR
      [] inner = "GetStatus"           -> CmdSTATUS
      [] inner = "GetDeviceInfo"       -> CmdI
      [] inner = "GetTempCompensation" -> CmdTQ
      [] inner = "TempCompensation"    -> PfxT \o FmtF(arg.num)
      [] inner = "GetLedStatus"        -> CmdLQ
      [] inner = "LedStatus"           -> IF arg.on THEN CmdL1 ELSE CmdL0
      [] inner = "ClearCalibration"    -> CmdCalClear
      [] inner = "GetCalibrationCount" -> CmdCalQ
      [] inner = "GetOutputParameters" -> CmdOQ
      [] inner = "OutputParameters"    -> OutputParametersCmd(key, arg.m[key])
      [] inner = "GetProbeType"        -> CmdKQ
      [] inner = "ProbeType"           -> ProbeTypeCmd(arg.num)
      [] inner = "GetCalibrationSlope" -> CmdSLOPE
      [] inner = "Calibration" /\ kind = "cond" -> ConductivityCalibrationCmd(arg.point, arg.num)
      [] inner = "Calibration" /\ kind = "ph"   -> PHCalibrationCmd(arg.point, arg.num)

\* the settle time, in ms, an operation hands to PerformRead
WaitTime(kind, inner, arg) ==
    CASE inner = "GetRawValue"                        -> 1000
      [] inner = "ClearCalibration" /\ kind = "cond"  -> 1300
      [] inner = "ClearCalibration" /\ kind = "ph"    -> 300
      [] inner = "Calibration" /\ kind = "cond"       -> ConductivityCalibrationWait(arg.point)
      [] inner = "Calibration" /\ kind = "ph"         -> 1600
      [] OTHER                                        -> 300

\* what an operation makes of the payload PerformRead returned
Parse(kind, inner, payload) ==
    CASE inner = "GetRawValue" -> [err |-> Nil, val |-> payload]
      [] inner = "GetStatus" ->
            LET m == FindStringSubmatchMap(statusRegex, payload)
                f == ParseFloat(m.caps[2])
            IN  IF m.err # Nil THEN [err |-> m.err, val |-> NoVal]
                ELSE IF f.err # Nil THEN [err |-> f.err, val |-> NoVal]
                ELSE [err |-> Nil, val |-> <<m.caps[1], f.val>>]
      [] inner = "GetDeviceInfo" ->
            LET m == FindStringSubmatchMap(deviceInfoRegex, payload)
                f == ParseFloat(m.caps[2])
            IN  IF m.err # Nil THEN [err |-> m.err, val |-> NoVal]
                ELSE IF f.err # Nil THEN [err |-> f.err, val |-> NoVal]
                ELSE [err |-> Nil, val |-> <<m.caps[1], f.val>>]
      [] inner = "GetTempCompensation" ->
            LET m == FindStringSubmatchMap(tempCompRegex, payload)
                f == ParseFloat(m.caps[1])
            IN  IF m.err # Nil THEN [err |-> m.err, val |-> 0]
                ELSE IF f.err # Nil THEN [err |-> f.err, val |-> 0]
                ELSE [err |-> Nil, val |-> f.val]
      [] inner = "GetLedStatus" ->
            LET m == FindStringSubmatchMap(ledStatRegex, payload)
                b == ParseBool(m.caps[1])
            IN  IF m.err # Nil THEN [err |-> m.err, val |-> 0]
                ELSE IF b.err # Nil THEN [err |-> b.err, val |-> 0]
                ELSE [err |-> Nil, val |-> b.val]
      [] inner = "GetCalibrationCount" ->
            LET m == FindStringSubmatchMap(calRegex, payload)
                n == ParseInt(m.caps[1])
            IN  IF m.err # Nil THEN [err |-> m.err, val |-> 0]
                ELSE IF n.err # Nil THEN [err |-> n.err, val |-> 0]
                ELSE [err |-> Nil, val |-> n.val]
      [] inner = "GetProbeType" ->
            LET m == FindStringSubmatchMap(probeTypeRegex, payload)
                f == ParseFloat(m.caps[1])
            IN  IF m.err # Nil THEN [err |-> m.err, val |-> ERROR_VALUE]
                ELSE IF f.err # Nil THEN [err |-> f.err, val |-> ERROR_VALUE]
                ELSE [err |-> Nil, val |-> f.val]
      [] inner = "GetCalibrationSlope" ->
            LET m == FindStringSubmatchMap(slopeRegex, payload)
                a == ParseFloat(m.caps[1])
                b == ParseFloat(m.caps[2])
            IN  IF m.err # Nil THEN [err |-> m.err, val |-> NoVal]
                ELSE IF a.err # Nil THEN [err |-> a.err, val |-> NoVal]
                ELSE IF b.err # Nil THEN [err |-> b.err, val |-> NoVal]
                ELSE [err |-> Nil, val |-> <<a.val, b.val>>]
      [] inner = "GetOutputParameters" -> GetOutputParametersParse(payload)
      [] OTHER -> [err |-> Nil, val |-> NoVal]

(***************************************************************************)
(* The device behind a handle: the set of channels it reports, and the     *)
(* reply it holds for the command it received last. It applies a command   *)
(* when the command is written and answers as the instruction sequences    *)
(* documented above each operation say.                                    *)
(***************************************************************************)
Reading(p) ==
    CASE p = EC              -> <<49, 52, 49, 51>>   \* "1413"
      [] p = TDS             -> <<55, 48, 55>>       \* "707"
      [] p = Salinity        -> <<48, 46, 55>>       \* "0.7"
      [] p = SpecificGravity -> <<49, 46, 48, 50>>   \* "1.02"

RECURSIVE DevOrder(_)
DevOrder(S) == IF S = {} THEN <<>> ELSE <<Min(S)>> \o DevOrder(S \ {Min(S)})

RECURSIVE Join(_)
Join(fields) ==
    IF fields = <<>> THEN <<>>
    ELSE IF Len(fields) = 1 THEN fields[1]
    ELSE fields[1] \o Comma \o Join(Tail(fields))

DeviceEnabled(enabled, cmd) ==
    LET f == Split(cmd)
    IN  IF Len(f) = 3 /\ f[1] = <<79>> /\ outputParamToConductivityMeasurement(f[2]).ok
           /\ f[3] \in {<<48>>, <<49>>}
        THEN IF f[3] = <<49>>
             THEN enabled \cup {outputParamToConductivityMeasurement(f[2]).p}
             ELSE enabled \ {outputParamToConductivityMeasurement(f[2]).p}
        ELSE enabled

DeviceReply(kind, enabled, cmd) ==
    CASE cmd = CmdR /\ kind = "cond" ->
            Join([i \in 1..Cardinality(enabled) |-> Reading(DevOrder(enabled)[i])])
      [] cmd = CmdR /\ kind = "ph" -> <<55, 46, 48, 48>>                     \* "7.00"
      [] cmd = CmdSTATUS -> <<63, 83, 84, 65, 84, 85, 83, 44, 80, 44, 53, 46, 48, 51, 56>>
      [] cmd = CmdI /\ kind = "cond" -> <<63, 73, 44, 69, 67, 44, 49, 46, 48>> \* "?I,EC,1.0"
      [] cmd = CmdI /\ kind = "ph" -> <<63, 73, 44, 112, 72, 44, 49, 46, 48>>  \* "?I,pH,1.0"
      [] cmd = CmdTQ -> <<63, 84, 44, 49, 57, 46, 53>>                       \* "?T,19.5"
      [] cmd = CmdLQ -> <<63, 76, 44, 49>>                                   \* "?L,1"
      [] cmd = CmdCalQ -> <<63, 67, 65, 76, 44, 50>>                         \* "?CAL,2"
      [] cmd = CmdKQ /\ kind = "cond" -> <<63, 75, 44, 48, 46, 54, 54>>      \* "?K,0.66"
      [] cmd = CmdSLOPE /\ kind = "ph" ->
            <<63, 83, 76, 79, 80, 69, 44, 57, 57, 46, 55, 44, 49, 48, 48, 46, 51>>
      [] cmd = CmdOQ /\ kind = "cond" ->
            <<63, 79, 44>> \o Join([i \in 1..Cardinality(enabled) |-> TokenOf(DevOrder(enabled)[i])])
      [] OTHER -> <<>>

DeviceWrite(kind, d, cmd) ==
    LET en == IF kind = "cond" THEN DeviceEnabled(d.enabled, cmd) ELSE d.enabled
    IN  [enabled |-> en, pending |-> TRUE, out |-> DeviceReply(kind, en, cmd)]

\* the reply leaves the device with the first frame that is not "pending"
DeviceRead(d, f) ==
    IF f[1] = StatusPending THEN d ELSE [d EXCEPT !.pending = FALSE, !.out = <<>>]

\* and once PerformRead reads no more: what the device still holds is
\* replaced at the next command
DeviceDropped(d) == [d EXCEPT !.pending = FALSE, !.out = <<>>]

(***************************************************************************)
(* The frames a read of the transport may return.                          *)
(***************************************************************************)
AllStatuses == {0, 1, 2, 3, 254, 255}

JunkPayloads ==
    { <<120>>,                                  \* "x"
      <<49, 52, 49, 51>>,                       \* "1413"
      <<49, 52, 49, 51, 44, 55, 48, 55>>,       \* "1413,707"
      <<49, 52, 49, 51, 44, 120>>,              \* "1413,x"
      <<63, 79, 44, 69, 67, 44, 69, 67>>,       \* "?O,EC,EC"
      <<63, 79, 44, 69, 67, 44, 88, 88>>,       \* "?O,EC,XX"
      <<63, 79, 44, 83, 71, 44, 69, 67>>,       \* "?O,SG,EC"
      <<97, 98, 63, 79, 44, 83, 71>> }          \* "ab?O,SG"

RECURSIVE SeqsUpTo(_, _)
SeqsUpTo(A, n) ==
    IF n = 0 THEN {<<>>}
    ELSE LET shorter == SeqsUpTo(A, n - 1)
         IN  shorter \cup {Append(q, a) : q \in shorter, a \in A}

ArbPayloads == SeqsUpTo({0, 49}, MaxPayloadLen)

\* a device that answers; the status byte is whatever the device says
DeviceFrames(d) == {MkFrame(st, d.out) : st \in AllStatuses}

\* any frame at all
AnyFrames(d) ==
    {MkFrame(st, pl) : st \in AllStatuses, pl \in {d.out} \cup JunkPayloads \cup ArbPayloads}

(***************************************************************************)
(* The state.                                                              *)
(*   pc[c]    where caller c stands: "idle"; "enter" (in a composite       *)
(*            operation, about to call its next guarded operation);        *)
(*            "write", "read", "reread" (inside a guarded operation,       *)
(*            before this.Write, before the first Connection.Read of       *)
(*            PerformRead, before its second)                              *)
(*   call[c]  the frame of c's call in progress                            *)
(*   mtx[h]   the caller that holds handle h's Mtx, or NoOne               *)
(*   dev[h]   the device at handle h's address                             *)
(*   last     the call that has just returned: its frame, with its caller  *)
(*            and its result (NoCall once the caller is through with it)   *)
(*   crashed  a panic has ended the process                                *)
(*   DefaultMeasurement  the Conductivity's field, set by New              *)
(***************************************************************************)
VARIABLES pc, call, mtx, dev, last, crashed, DefaultMeasurement

vars == <<pc, call, mtx, dev, last, crashed, DefaultMeasurement>>

Callers == 1..NumCallers
Handles == {"cond", "ph"}
NoOne == 0
NoKey == -1

ReadFailed == 256        \* in place of a status byte: Connection.Read returned an error

NoArg == [point |-> <<>>, num |-> 0, on |-> FALSE, m |-> <<>>]
NoPrev == [set |-> FALSE, m |-> <<>>]
NoResult == [set |-> FALSE, err |-> Nil, val |-> <<>>]

(***************************************************************************)
(* A frame: the handle, the public operation and its argument; the guarded *)
(* operation in progress (inner); OutputParameters' loop (the key in hand, *)
(* the keys not yet done); GetAllValues' locals (params, raw); and a       *)
(* record of the transport calls made: the command written last and the    *)
(* settle time handed to PerformRead, the outcomes of the reads of the     *)
(* last PerformRead (status bytes, or ReadFailed), the frame it went by    *)
(* (data: a pending frame is read over) and what it returned (pr), the     *)
(* numbers of writes and reads of the whole call, the first failure it met *)
(* (failed: a failing write, a failing read, or a read cycle that returned *)
(* another error), whether the                                             *)
(* last frame read was the device's own reply, the device's reporting      *)
(* order when it received the last command, the map of the                 *)
(* OutputParameters call that the caller made, and that returned nil,      *)
(* right before this call; and, once the call has returned, its caller and *)
(* its result.                                                             *)
(***************************************************************************)
NoCall ==
    [h |-> "none", op |-> "none", inner |-> "none", arg |-> NoArg,
     key |-> NoKey, todo |-> {}, params |-> <<>>, raw |-> <<>>,
     cmd |-> <<>>, wait |-> 0, sts |-> <<>>, data |-> <<>>, pr |-> NoResult,
     nw |-> 0, nr |-> 0, failed |-> "",
     genuine |-> FALSE, devOrder |-> <<>>, prev |-> NoPrev,
     by |-> NoOne, err |-> Nil, val |-> NoVal]

\* no call has just returned, and the process runs
Quiet == last.by = NoOne /\ ~crashed

\* what an operation returns beside the error that ends it
ZeroVal(kind, inner) ==
    CASE inner = "GetProbeType" -> ERROR_VALUE
      [] inner \in {"GetTempCompensation", "GetLedStatus", "GetCalibrationCount"} -> 0
      [] OTHER -> NoVal

\* this.Mtx.Unlock() left out
Unlock_Never(c, h) == mtx

\* this.Mtx.Unlock(), deferred
Unlock(c, h) == [mtx EXCEPT ![h] = IF @ = c THEN NoOne ELSE @]

\* the call returns to its caller
Return(c, fr, err, val) ==
    /\ pc' = [pc EXCEPT ![c] = "idle"]
    /\ call' = [call EXCEPT ![c] = NoCall]
    /\ last' = [fr EXCEPT !.by = c, !.err = err, !.val = val]
    /\ crashed' = (crashed \/ err = Panic)

\* the error of the guarded operation left unchecked
SubStepFailed_Never(r) == FALSE

\* if err != nil { return ... } after a guarded operation a composite one calls
SubStepFailed(r) == r.err # Nil

\* a guarded operation returns r: the guard is released, and the composite
\* operation that called it goes on or returns (the float32 of GetValue is
\* kept as a sequence of one number)
InnerDone(c, fr, r) ==
    LET kind == Kind(fr.h) IN
    /\ mtx' = Unlock(c, fr.h)
    /\ CASE ~Composite(kind, fr.op) -> Return(c, fr, r.err, r.val)
         [] kind = "cond" /\ fr.op = "Init" -> Return(c, fr, r.err, NoVal)
         [] kind = "ph" /\ fr.op = "GetValue" ->
               IF r.err # Nil THEN Return(c, fr, r.err, <<0>>)
               ELSE LET f == ParseFloat(r.val)
                    IN  Return(c, [fr EXCEPT !.raw = r.val], f.err, <<f.val>>)
         [] kind = "cond" /\ fr.op \in {"GetAllValues", "GetValue"} ->
               LET bad == IF fr.op = "GetValue" THEN <<ERROR_VALUE>> ELSE NoVal IN
               IF SubStepFailed(r) THEN Return(c, fr, r.err, bad)
               ELSE IF fr.inner = "GetOutputParameters"
               THEN /\ pc' = [pc EXCEPT ![c] = "enter"]
                    /\ call' = [call EXCEPT ![c] =
                                  [fr EXCEPT !.inner = "GetRawValue", !.params = r.val,
                                             !.sts = <<>>, !.data = <<>>, !.pr = NoResult,
                                             !.genuine = FALSE]]
                    /\ UNCHANGED <<last, crashed>>
               ELSE LET g == GetAllValuesResult(fr.params, r.val)
                        fr2 == [fr EXCEPT !.raw = r.val]
                    IN  IF g.err # Nil THEN Return(c, fr2, g.err, bad)
                        ELSE IF fr.op = "GetAllValues" THEN Return(c, fr2, Nil, g.val)
                        ELSE Return(c, fr2, Nil, <<MapLookup(g.val, DefaultMeasurement)>>)

\* the guarded operation goes to its (next) this.Write
ToWrite(c, fr, key) ==
    LET kind == Kind(fr.h) IN
    /\ pc' = [pc EXCEPT ![c] = "write"]
    /\ call' = [call EXCEPT ![c] =
                  [fr EXCEPT !.key = key, !.sts = <<>>, !.data = <<>>, !.pr = NoResult,
                             !.cmd = Command(kind, fr.inner, fr.arg, key),
                             !.wait = WaitTime(kind, fr.inner, fr.arg)]]
    /\ mtx' = IF Guarded(kind, fr.inner) THEN [mtx EXCEPT ![fr.h] = c] ELSE mtx
    /\ last' = NoCall
    /\ UNCHANGED crashed

\* one Mtx for all the handles of the transport
GuardFree_Global(h) == \A g \in DOMAIN mtx : mtx[g] = NoOne

\* this.Mtx.Lock() goes through: Mtx is a field of the handle
GuardFree(h) == mtx[h] = NoOne

\* a guarded operation begins: the guard is taken, the argument is checked
Begin(c, fr, key) ==
    LET kind == Kind(fr.h) IN
    /\ Guarded(kind, fr.inner) => GuardFree(fr.h)
    /\ IF fr.inner = "Init" THEN InnerDone(c, fr, [err |-> Nil, val |-> NoVal])
       ELSE IF fr.inner = "OutputParameters"
       THEN IF DOMAIN fr.arg.m = {}
            THEN key = NoKey /\ InnerDone(c, fr, [err |-> Nil, val |-> NoVal])
            ELSE /\ key \in DOMAIN fr.arg.m
                 /\ IF ~conductivityMeasurementToOutputParam(key).ok
                    THEN InnerDone(c, fr, [err |-> ErrNoOutputParam, val |-> NoVal])
                    ELSE ToWrite(c, [fr EXCEPT !.todo = DOMAIN fr.arg.m], key)
       ELSE /\ key = NoKey
            /\ IF Validate(kind, fr.inner, fr.arg) # Nil
               THEN InnerDone(c, fr, [err |-> Validate(kind, fr.inner, fr.arg),
                                      val |-> ZeroVal(kind, fr.inner)])
               ELSE ToWrite(c, fr, NoKey)

\* OutputParameters' range loop goes to its next key whatever the read cycle
\* of this one returned
LoopGoesOn_OnError(fr, r) ==
    fr.inner = "OutputParameters" /\ fr.todo \ {fr.key} # {}

\* OutputParameters' range loop has a next key: the read cycle of this one
\* returned nil
LoopGoesOn(fr, r) ==
    fr.inner = "OutputParameters" /\ r.err = Nil /\ fr.todo \ {fr.key} # {}

\* PerformRead returns r
PerformReadDone(c, fr0, r, key) ==
    LET fr == [fr0 EXCEPT !.pr = [set |-> TRUE, err |-> r.err, val |-> r.val],
                          !.failed = IF r.err # Nil /\ @ = "" THEN "status" ELSE @]
        kind == Kind(fr.h)
        left == fr.todo \ {fr.key}
    IN  IF r.err = Panic
        THEN /\ key = NoKey
             /\ mtx' = Unlock(c, fr.h)
             /\ Return(c, fr, Panic, NoVal)
        ELSE IF LoopGoesOn(fr, r)
        THEN /\ key \in left
             /\ IF ~conductivityMeasurementToOutputParam(key).ok
                THEN InnerDone(c, fr, [err |-> ErrNoOutputParam, val |-> NoVal])
                ELSE ToWrite(c, [fr EXCEPT !.todo = left], key)
        ELSE /\ key = NoKey
             /\ InnerDone(c, fr, IF r.err # Nil
                                 THEN [err |-> r.err, val |-> ZeroVal(kind, fr.inner)]
                                 ELSE Parse(kind, fr.inner, r.val))

(***************************************************************************)
(* The steps.                                                              *)
(***************************************************************************)
\* caller c calls operation op of handle h
Start(c, h, op, arg, key, prev) ==
    LET kind == Kind(h)
        a == IF kind = "cond" /\ op = "Init" THEN [arg EXCEPT !.m = allOn] ELSE arg
    IN  /\ pc[c] = "idle" /\ ~crashed
        /\ op \in OpsOf(h)
        /\ Begin(c, [NoCall EXCEPT !.h = h, !.op = op, !.inner = FirstInner(kind, op),
                                   !.arg = a, !.prev = prev], key)
        /\ UNCHANGED <<dev, DefaultMeasurement>>

\* the caller is through with the result of the call that has just returned
Done ==
    /\ last.by # NoOne
    /\ last' = NoCall
    /\ UNCHANGED <<pc, call, mtx, dev, crashed, DefaultMeasurement>>

\* a composite operation calls its next guarded operation
Enter(c) ==
    /\ pc[c] = "enter" /\ Quiet
    /\ Begin(c, call[c], NoKey)
    /\ UNCHANGED <<dev, DefaultMeasurement>>

\* this.Write(cmd) succeeds: the device has the command
WriteOk(c) ==
    LET fr == call[c] IN
    /\ pc[c] = "write" /\ Quiet
    /\ dev' = [dev EXCEPT ![fr.h] = DeviceWrite(Kind(fr.h), @, fr.cmd)]
    /\ pc' = [pc EXCEPT ![c] = "read"]
    /\ call' = [call EXCEPT ![c] = [fr EXCEPT !.nw = @ + 1,
                                              !.devOrder = DevOrder(dev'[fr.h].enabled)]]
    /\ UNCHANGED <<mtx, last, crashed, DefaultMeasurement>>

\* this.Write(cmd) fails, and the operation goes on to PerformRead
WriteFail_ReadOn(c) ==
    LET fr == call[c] IN
    /\ pc[c] = "write" /\ Quiet
    /\ pc' = [pc EXCEPT ![c] = "read"]
    /\ call' = [call EXCEPT ![c] = [fr EXCEPT !.nw = @ + 1, !.failed = "write"]]
    /\ UNCHANGED <<mtx, last, crashed, dev, DefaultMeasurement>>

\* this.Write(cmd) fails
WriteFail(c) ==
    LET fr == call[c] IN
    /\ pc[c] = "write" /\ Quiet
    /\ InnerDone(c, [fr EXCEPT !.nw = @ + 1, !.failed = "write"],
                 [err |-> ErrWrite, val |-> ZeroVal(Kind(fr.h), fr.inner)])
    /\ UNCHANGED <<dev, DefaultMeasurement>>

Received(fr, f) ==
    [fr EXCEPT !.nr = @ + 1, !.sts = Append(@, f[1]), !.data = f,
               !.genuine = (dev[fr.h].pending /\ f = MkFrame(f[1], dev[fr.h].out))]

\* PerformRead's first Connection.Read returns frame f
Read(c, f, key) ==
    LET fr == Received(call[c], f)
        e == checkReadError(f)
    IN  /\ pc[c] = "read" /\ Quiet
        /\ dev' = [dev EXCEPT ![fr.h] = DeviceRead(@, f)]
        /\ IF e # 0
           THEN IF e = StatusPending
                THEN /\ key = NoKey
                     /\ pc' = [pc EXCEPT ![c] = "reread"]
                     /\ call' = [call EXCEPT ![c] = [fr EXCEPT !.data = <<>>]]
                     /\ UNCHANGED <<mtx, last, crashed>>
                ELSE PerformReadDone(c, fr, [err |-> ReadErrorMessage(e), val |-> <<>>], key)
           ELSE PerformReadDone(c, fr, Payload(f), key)
        /\ UNCHANGED DefaultMeasurement

\* PerformRead's second Connection.Read returns frame f
Reread(c, f, key) ==
    LET fr == Received(call[c], f)
        e == checkReadError(f)
    IN  /\ pc[c] = "reread" /\ Quiet
        /\ dev' = [dev EXCEPT ![fr.h] = DeviceDropped(@)]
        /\ IF e # 0
           THEN PerformReadDone(c, fr, [err |-> ReadErrorMessage(e), val |-> <<>>], key)
           ELSE PerformReadDone(c, fr, Payload(f), key)
        /\ UNCHANGED DefaultMeasurement

\* PerformRead's first Connection.Read fails, and PerformRead reads again
ReadFail_Retry(c) ==
    LET fr == call[c] IN
    /\ pc[c] = "read" /\ Quiet
    /\ pc' = [pc EXCEPT ![c] = "reread"]
    /\ call' = [call EXCEPT ![c] = [fr EXCEPT !.nr = @ + 1, !.sts = Append(@, ReadFailed),
                                              !.failed = "read"]]
    /\ UNCHANGED <<mtx, last, crashed, dev, DefaultMeasurement>>

\* PerformRead's first Connection.Read fails
ReadFail(c) ==
    LET fr == call[c] IN
    /\ pc[c] = "read" /\ Quiet
    /\ PerformReadDone(c, [fr EXCEPT !.nr = @ + 1, !.sts = Append(@, ReadFailed),
                                      !.failed = "read"],
                       [err |-> ErrRead, val |-> <<>>], NoKey)
    /\ dev' = [dev EXCEPT ![fr.h] = DeviceDropped(@)]
    /\ UNCHANGED DefaultMeasurement

\* PerformRead's second Connection.Read fails
RereadFail(c) ==
    LET fr == call[c] IN
    /\ pc[c] = "reread" /\ Quiet
    /\ PerformReadDone(c, [fr EXCEPT !.nr = @ + 1, !.sts = Append(@, ReadFailed),
                                      !.failed = "read"],
                       [err |-> ErrRead, val |-> <<>>], NoKey)
    /\ dev' = [dev EXCEPT ![fr.h] = DeviceDropped(@)]
    /\ UNCHANGED DefaultMeasurement

(***************************************************************************)
(* The calls the callers make.                                             *)
(***************************************************************************)
BadKey == SpecificGravity + 1        \* a ConductivityMeasurement outside the table
Keys == Channels \cup {BadKey, NoKey}

MapOf(S, T) == [p \in S |-> p \in T]
TotalMaps == {MapOf(Channels, T) : T \in SUBSET Channels}
OutMaps == TotalMaps \cup
           { MapOf({}, {}), MapOf({EC}, {}), MapOf({EC, Salinity}, {Salinity}),
             MapOf({TDS, SpecificGravity}, {TDS}), MapOf({BadKey}, {BadKey}),
             MapOf({EC, BadKey}, {EC}) }

ProbeTypes == {-1000, 0, 99, 100, 660, 10000, 10001}
Points == {Dry, One, Low, High, Mid, <<>>}
EcValues == {210999, 999, -1500}     \* 210.999, 0.999, -1.5

ArgsOf(kind, op) ==
    CASE op = "TempCompensation" -> {[NoArg EXCEPT !.num = 19500]}
      [] op = "LedStatus"        -> {[NoArg EXCEPT !.on = b] : b \in BOOLEAN}
      [] op = "ProbeType"        -> {[NoArg EXCEPT !.num = k] : k \in ProbeTypes}
      [] op = "Calibration" /\ kind = "cond" ->
            {[NoArg EXCEPT !.point = pt, !.num = v] : pt \in Points, v \in EcValues}
      [] op = "Calibration" /\ kind = "ph" ->
            {[NoArg EXCEPT !.point = pt, !.num = v] : pt \in Points, v \in {4010, 7000}}
      [] op = "OutputParameters" -> {[NoArg EXCEPT !.m = m] : m \in OutMaps}
      [] OTHER -> {NoArg}

\* every operation of every handle
SeqMenu == UNION {{[h |-> h, op |-> op, arg |-> a] : a \in ArgsOf(Kind(h), op)} :
                     h \in Handles, op \in CondOps \cup PHOps}

\* the operations whose result depends on the payload read
ReadMenu == {m \in SeqMenu : m.op \in {"GetRawValue", "GetOutputParameters", "GetAllValues", "GetValue"}}

\* the calls of concurrent callers: the guarded operations, one argument each
ConcMaps == {MapOf({EC, Salinity}, {Salinity}), MapOf({TDS}, {})}
ConcMenu == {m \in SeqMenu :
               /\ m.op \notin {"Init", "GetValue"}
               /\ m.h = "ph" => m.op \in {"GetCalibrationSlope", "Calibration", "ClearCalibration"}
               /\ m.op = "OutputParameters" => m.arg.m \in ConcMaps
               /\ m.op = "ProbeType" => m.arg.num = 660
               /\ m.op = "Calibration" => m.arg.point = Low /\ m.arg.num \in {210999, 7000}
               /\ m.op = "LedStatus" => m.arg.on}

Call(c, menu) ==
    /\ pc[c] = "idle" /\ Quiet
    /\ \E m \in menu, key \in Keys : Start(c, m.h, m.op, m.arg, key, NoPrev)

\* OutputParameters has returned nil, and its caller calls GetOutputParameters
SetThenGet(c) ==
    /\ last.by = c /\ last.op = "OutputParameters" /\ last.err = Nil
    /\ Start(c, last.h, "GetOutputParameters", NoArg, NoKey, [set |-> TRUE, m |-> last.arg.m])

ReadDevice(c) ==
    /\ pc[c] = "read" /\ Quiet
    /\ \E f \in DeviceFrames(dev[call[c].h]), key \in Keys : Read(c, f, key)

RereadDevice(c) ==
    /\ pc[c] = "reread" /\ Quiet
    /\ \E f \in DeviceFrames(dev[call[c].h]), key \in Keys : Reread(c, f, key)

ReadAny(c) ==
    /\ pc[c] = "read" /\ Quiet
    /\ \E f \in AnyFrames(dev[call[c].h]), key \in Keys : Read(c, f, key)

RereadAny(c) ==
    /\ pc[c] = "reread" /\ Quiet
    /\ \E f \in AnyFrames(dev[call[c].h]), key \in Keys : Reread(c, f, key)

NoDevice == [enabled |-> {}, pending |-> FALSE, out |-> <<>>]

\* the state after New: the device reports one of the sets of channels in
\* enabledSets, DefaultMeasurement is one of the channels in defaults
InitOf(enabledSets, defaults) ==
    /\ pc = [c \in Callers |-> "idle"]
    /\ call = [c \in Callers |-> NoCall]
    /\ mtx = [h \in Handles |-> NoOne]
    /\ dev \in {[h \in Handles |-> IF h = "cond" THEN [NoDevice EXCEPT !.enabled = S] ELSE NoDevice] :
                  S \in enabledSets}
    /\ last = NoCall
    /\ crashed = FALSE
    /\ DefaultMeasurement \in defaults

Init == InitOf(SUBSET Channels, {EC})

(***************************************************************************)
(* Spec: NumCallers callers share the two handles; the devices answer.     *)
(***************************************************************************)
Next ==
    \E c \in Callers :
        \/ Call(c, ConcMenu)
        \/ Done
        \/ Enter(c)
        \/ WriteOk(c)
        \/ WriteFail(c)
        \/ ReadDevice(c)
        \/ RereadDevice(c)
        \/ ReadFail(c)
        \/ RereadFail(c)

ConcInit == InitOf({{EC}, Channels}, {EC})

Spec == ConcInit /\ [][Next]_vars

(***************************************************************************)
(* SpecSeq: one caller, every operation and argument; the devices answer.  *)
(***************************************************************************)
SeqNext ==
    \/ Call(1, SeqMenu)
    \/ SetThenGet(1)
    \/ Done
    \/ Enter(1)
    \/ WriteOk(1)
    \/ WriteFail(1)
    \/ ReadDevice(1)
    \/ RereadDevice(1)
    \/ ReadFail(1)
    \/ RereadFail(1)

SpecSeq == Init /\ [][SeqNext]_vars

(***************************************************************************)
(* SpecRead: one caller of the reading operations; a read of the transport *)
(* may return any frame.                                                   *)
(***************************************************************************)
ReadNext ==
    \/ Call(1, ReadMenu)
    \/ Done
    \/ Enter(1)
    \/ WriteOk(1)
    \/ WriteFail(1)
    \/ ReadAny(1)
    \/ RereadAny(1)
    \/ ReadFail(1)
    \/ RereadFail(1)

ReadInit == InitOf({{}, {EC, TDS}, Channels}, Channels)

SpecRead == ReadInit /\ [][ReadNext]_vars

(***************************************************************************)
(* SpecLive: NumCallers callers of the composite operations and of         *)
(* GetRawValue; the scheduler is fair and every transport call returns.    *)
(***************************************************************************)
LiveMenu == {m \in SeqMenu :
               \/ m.h = "cond" /\ m.op \in {"Init", "GetAllValues", "GetValue", "GetRawValue"}
               \/ m.h = "ph" /\ m.op = "GetValue"}

LiveNext ==
    \E c \in Callers :
        \/ Call(c, LiveMenu)
        \/ Done
        \/ Enter(c)
        \/ WriteOk(c)
        \/ WriteFail(c)
        \/ ReadDevice(c)
        \/ RereadDevice(c)
        \/ ReadFail(c)
        \/ RereadFail(c)

LiveInit == InitOf({{EC, TDS}}, {EC})

\* the next step of caller c inside its call
Proceed(c) ==
    \/ Enter(c)
    \/ WriteOk(c) \/ WriteFail(c)
    \/ ReadDevice(c) \/ ReadFail(c)
    \/ RereadDevice(c) \/ RereadFail(c)

\* caller c can take that step: its transport call returns, or the guard the
\* operation it is about to enter locks is free
CanProceed(c) ==
    /\ Quiet
    /\ \/ pc[c] \in {"write", "read", "reread"}
       \/ /\ pc[c] = "enter"
          /\ Guarded(Kind(call[c].h), call[c].inner) => GuardFree(call[c].h)

\* Proceed(c) by its guard and by what it does to pc: it is the one step
\* that takes caller c from where it is inside a call
Proceeds(c) ==
    /\ CanProceed(c)
    /\ pc' \in [Callers -> {"idle", "enter", "write", "read", "reread"}]
    /\ pc'[c] # pc[c]

\* a caller that can go on infinitely often does: it gets the guard it waits
\* for, and the transport call it makes returns, with or without an error
Fairness ==
    /\ WF_<<pc, last.by>>(Done)
    /\ \A c \in Callers : SF_pc(Proceeds(c))

SpecLive == LiveInit /\ [][LiveNext]_vars /\ Fairness

(***************************************************************************)
(* Properties of PerformRead (SpecRead: the transport may return any       *)
(* frame). F is the frame of a call in progress or of the call that has    *)
(* just returned.                                                          *)
(***************************************************************************)
RetriesOnce(F) ==
    /\ Len(F.sts) <= 2
    /\ Len(F.sts) = 2 => F.sts[1] = 254
    /\ F.pr.set /\ Len(F.sts) = 1 => F.sts[1] # 254
    /\ F.sts = <<254, 1>> => F.pr.set /\ F.pr.err = Nil
    /\ F.sts = <<254, 254>> => F.pr.set /\ F.pr.err = ErrPending

\* C1: a PerformRead call reads the transport at most twice, the second
\* time exactly when the first read returned status 254; 254 then 1 is a
\* success after two reads, 254 twice is the Pending error after two reads.
C1_RetryOnce == RetriesOnce(last) /\ \A c \in Callers : RetriesOnce(call[c])

C1_Witness ==
    /\ last.by # NoOne /\ last.op = "GetRawValue"
    /\ last.sts = <<254, 1>> /\ last.nr = 2 /\ last.err = Nil

FailsFast(F) ==
    /\ F.sts # <<>> /\ F.sts[1] = 2 =>
          Len(F.sts) = 1 /\ F.pr.set /\ F.pr.err = ErrReadError /\ F.pr.val = <<>>
    /\ F.sts # <<>> /\ F.sts[1] = 255 =>
          Len(F.sts) = 1 /\ F.pr.set /\ F.pr.err = ErrNoData /\ F.pr.val = <<>>
    /\ Len(F.sts) = 2 /\ F.sts[2] = 2 => F.pr.set /\ F.pr.err = ErrReadError
    /\ Len(F.sts) = 2 /\ F.sts[2] = 255 => F.pr.set /\ F.pr.err = ErrNoData

\* C9: status 2 or 255 on the first read of a PerformRead call ends the
\* call with the Read error or the No Data error and without a second
\* read; on the second read (after a 254) the same statuses are the same
\* errors.
C9_FailFast == FailsFast(last) /\ \A c \in Callers : FailsFast(call[c])

C9_Witness ==
    /\ last.by # NoOne /\ last.op = "GetRawValue"
    /\ last.sts = <<255>> /\ last.nr = 1 /\ last.err = ErrNoData

\* bytes 1..63 of a frame (2..64, counting from one) without the NULs at
\* their end
TrailingTrimmed(frame) ==
    LET body == SubSeq(frame, 2, Len(frame))
        nz == {i \in 1..Len(body) : body[i] # 0}
    IN  IF nz = {} THEN <<>> ELSE SubSeq(body, 1, Max(nz))

SuccessPayload(F) ==
    F.pr.set /\ F.data # <<>> /\ F.data[1] = 1 =>
        F.pr.err = Nil /\ F.pr.val = TrailingTrimmed(F.data)

\* C10: when the frame PerformRead goes by has status byte 1, PerformRead
\* returns the frame's other 63 bytes without their trailing NULs, and
\* with every other byte in place.
C10_PayloadTrim == SuccessPayload(last) /\ \A c \in Callers : SuccessPayload(call[c])

C10_Witness ==
    /\ last.by # NoOne /\ last.op = "GetRawValue"
    /\ last.data = MkFrame(1, <<0, 49>>) /\ last.err = Nil /\ last.val = <<0, 49>>

(***************************************************************************)
(* Properties of GetAllValues (SpecRead).                                  *)
(***************************************************************************)
\* GetAllValues has returned after both of its fetches succeeded
GetAllValuesFetched ==
    /\ last.by # NoOne /\ last.h = "cond" /\ last.op = "GetAllValues"
    /\ last.inner = "GetRawValue" /\ last.pr.set /\ last.pr.err = Nil

FieldsParse(data) == \A i \in 1..Len(data) : ParseFloat(data[i]).err = Nil

\* C4, as claimed: a count mismatch is an error; otherwise the result's
\* keys are the channels of the fetched set and the i-th field is the value
\* of the i-th channel.
C4_AsClaimed ==
    GetAllValuesFetched =>
        LET data == Split(last.pr.val)
            P == last.params
        IN  /\ Len(data) # Len(P) => last.err # Nil
            /\ Len(data) = Len(P) /\ FieldsParse(data) =>
                  /\ last.err = Nil
                  /\ DOMAIN last.val = {P[i] : i \in 1..Len(P)}
                  /\ \A i \in 1..Len(P) : last.val[P[i]] = ParseFloat(data[i]).val

\* C4, amended: a count mismatch is an error; otherwise the result's keys
\* are the channels of the fetched set and the i-th field is the value of
\* the i-th channel, unless the channel occurs again later in the set: a
\* channel that occurs more than once has the field of its last position.
C4_CountAndKeys ==
    GetAllValuesFetched =>
        LET data == Split(last.pr.val)
            P == last.params
        IN  /\ Len(data) # Len(P) => last.err = ErrCountMismatch /\ last.val = NoVal
            /\ Len(data) = Len(P) /\ FieldsParse(data) =>
                  /\ last.err = Nil
                  /\ DOMAIN last.val = {P[i] : i \in 1..Len(P)}
                  /\ \A i \in 1..Len(P) :
                        (\A j \in (i + 1)..Len(P) : P[j] # P[i]) =>
                            last.val[P[i]] = ParseFloat(data[i]).val

C4_Witness ==
    /\ GetAllValuesFetched /\ last.params = <<EC, EC>>
    /\ Split(last.pr.val) = << <<49, 52, 49, 51>>, <<55, 48, 55>> >>
    /\ last.err = Nil /\ last.val[EC] = 707000


(***************************************************************************)
(* Properties of the guard (Spec: NumCallers callers, the devices answer). *)
(***************************************************************************)
\* the callers between the write and the last read of an operation on h
InFlight(h) == {c \in Callers : pc[c] \in {"read", "reread"} /\ call[c].h = h}

\* C2: a caller that is about to write, or between its write and its last
\* read, holds the guard of its handle, and at most one caller per handle
\* is between the write and the last read of an operation.
C2_GuardHeld ==
    /\ \A c \in Callers :
          pc[c] \in {"write", "read", "reread"} => mtx[call[c].h] = c
    /\ \A h \in Handles : Cardinality(InFlight(h)) <= 1

C2_Witness ==
    \E c, d \in Callers :
        /\ c # d /\ call[c].h = "cond" /\ call[d].h = "cond"
        /\ pc[c] = "reread" /\ call[c].op = "OutputParameters"
        /\ pc[d] = "enter" /\ call[d].op = "GetAllValues"

\* C3, as claimed: when GetAllValues returns a MeasurementSet, the set of
\* parameters it labelled the fields with is the device's order of enabled
\* channels at the time the device received the R command.
C3_AsClaimed ==
    /\ last.by # NoOne /\ last.h = "cond" /\ last.op = "GetAllValues"
    /\ last.inner = "GetRawValue" /\ last.pr.set /\ last.err = Nil
    => last.params = last.devOrder

(***************************************************************************)
(* Properties of the argument checks and of the round trip (SpecSeq: one   *)
(* caller, the devices answer).                                            *)
(***************************************************************************)
ProbeTypeReturned == last.by # NoOne /\ last.h = "cond" /\ last.op = "ProbeType"

\* C5: ProbeType(k) with k < 0.1 or k > 10 returns an error and neither
\* writes nor reads; with 0.1 <= k <= 10 it writes K,<k> once and, when the
\* write succeeds and the read returns status 1 (at once or after a 254),
\* returns nil.
C5_ProbeTypeRange ==
    ProbeTypeReturned =>
        LET k == last.arg.num
        IN  /\ k < 100 \/ k > 10000 => last.err # Nil /\ last.nw = 0 /\ last.nr = 0
            /\ k >= 100 /\ k <= 10000 =>
                  /\ last.nw = 1 /\ last.cmd = PfxK \o FmtF(k)
                  /\ last.sts \in {<<1>>, <<254, 1>>} => last.err = Nil

C5_Witness ==
    /\ ProbeTypeReturned /\ last.arg.num = 100 /\ last.sts = <<1>> /\ last.err = Nil
    /\ last.cmd = <<75, 44, 48, 46, 49, 48, 48, 48, 48, 48>>

\* C6, as claimed: Conductivity.Calibration returns an error for every
\* calibration point other than dry, one, low, high.
C6_AsClaimed ==
    /\ last.by # NoOne /\ last.h = "cond" /\ last.op = "Calibration"
    /\ last.arg.point \notin {Dry, One, Low, High}
    => last.err # Nil

PHCalibrationReturned == last.by # NoOne /\ last.h = "ph" /\ last.op = "Calibration"

\* C7: PH.Calibration with a point other than high, mid, low returns an
\* error and neither writes nor reads; with one of the three it writes
\* CAL,<point>,<value> once and, when the write succeeds, makes one
\* PerformRead call (of 1600 ms settle time) and no other read.
C7_PHCalibration ==
    PHCalibrationReturned =>
        LET pt == last.arg.point
        IN  /\ pt \notin {High, Mid, Low} => last.err # Nil /\ last.nw = 0 /\ last.nr = 0
            /\ pt \in {High, Mid, Low} =>
                  /\ last.nw = 1
                  /\ last.cmd = PfxCal \o pt \o Comma \o FmtF(last.arg.num)
                  /\ last.wait = 1600
                  /\ last.err = ErrWrite => last.nr = 0
                  /\ last.err # ErrWrite =>
                        last.pr.set /\ last.nr \in {1, 2} /\ last.nr = Len(last.sts)

C7_Witness ==
    /\ PHCalibrationReturned /\ last.arg.point = Mid /\ last.arg.num = 7000
    /\ last.cmd = <<67, 65, 76, 44, 109, 105, 100, 44, 55, 46, 48, 48, 48, 48, 48, 48>>
    /\ last.sts = <<1>> /\ last.err = Nil

\* GetOutputParameters has returned, called right after an OutputParameters
\* call that set every channel and returned nil; its write succeeded and
\* its read returned the device's reply with status 1
RoundTrip ==
    /\ last.by # NoOne /\ last.h = "cond" /\ last.op = "GetOutputParameters"
    /\ last.prev.set /\ DOMAIN last.prev.m = Channels
    /\ last.sts = <<1>> /\ last.genuine

\* C8, as claimed: after OutputParameters(m) for a map m over the four
\* channels, GetOutputParameters returns nil and the channels p with m[p].
C8_AsClaimed ==
    RoundTrip =>
        /\ last.err = Nil
        /\ {last.val[i] : i \in 1..Len(last.val)} = {p \in Channels : last.prev.m[p]}


(***************************************************************************)
(* Status bytes checkReadError does not know (SpecRead).                   *)
(***************************************************************************)
OtherStatusPayload(F) ==
    F.pr.set /\ F.data # <<>> /\ F.data[1] \notin {1, 2, 254, 255} =>
        F.pr.err = Nil /\ F.pr.val = TrailingTrimmed(F.data)

\* C11, as claimed: when the frame PerformRead goes by has a status byte
\* other than 1, 2, 254, 255 (0 included), PerformRead returns nil and the
\* frame's other 63 bytes without their trailing NULs.
C11_AsClaimed == OtherStatusPayload(last) /\ \A c \in Callers : OtherStatusPayload(call[c])


(***************************************************************************)
(* Transport failures (SpecSeq).                                           *)
(***************************************************************************)
\* C12: a transport failure ends the call that meets it.  A call still under
\* way has met none, so no write or read follows one; a call that met a
\* failing write returns the write's error with no read after that write; a
\* call that met a failing read (first or second of PerformRead) returns the
\* read's error, and the failing read is the last thing it did.
C12_NoRetry ==
    /\ \A c \in Callers : call[c].failed = ""
    /\ last.failed = "write" =>
          last.err = ErrWrite /\ last.sts = <<>> /\ ~last.pr.set
    /\ last.failed = "read" =>
          /\ last.err = ErrRead /\ last.pr.set /\ last.pr.err = ErrRead
          /\ Len(last.sts) \in {1, 2} /\ last.sts[Len(last.sts)] = ReadFailed
          /\ Len(last.sts) = 2 => last.sts[1] = StatusPending
    /\ last.err = ErrWrite => last.failed = "write"
    /\ last.err = ErrRead => last.failed = "read"

C12_Witness ==
    /\ last.by # NoOne /\ last.op = "OutputParameters" /\ last.nw = 2
    /\ last.failed = "read" /\ last.sts = <<StatusPending, ReadFailed>>
    /\ last.err = ErrRead


(***************************************************************************)
(* OutputParameters' loop over the channels of its map (SpecSeq).          *)
(***************************************************************************)
\* the channels of the map whose write and read cycle returned nil
Toggled(F) == IF F.err = Nil THEN DOMAIN F.arg.m ELSE DOMAIN F.arg.m \ F.todo

\* C13: OutputParameters writes O,<token>,<1|0> once for each channel it
\* comes to, each write followed by one PerformRead call (one or two reads).
\* When it returns nil it has done so for every channel of the map.  When the
\* write or the read cycle of a channel fails, it returns that channel's
\* error at once (a call under way has met no failure), the channel's command
\* is the last one written (nothing is written for the channels left), and the device still has every channel toggled
\* before as the map says.
C13_ToggleLoop ==
    /\ \A c \in Callers : call[c].inner = "OutputParameters" => call[c].failed = ""
    /\ last.by # NoOne /\ last.inner = "OutputParameters"
                    /\ last.err \notin {ErrNoOutputParam, Panic} =>
        LET m == last.arg.m
            applied == IF last.failed = "write" \/ DOMAIN m = {} THEN Toggled(last)
                       ELSE Toggled(last) \cup {last.key}
        IN  /\ last.err = Nil =>
                  /\ last.failed = ""
                  /\ last.nw = Cardinality(DOMAIN m)
                  /\ DOMAIN m # {} => last.todo = {last.key}
            /\ last.err # Nil =>
                  /\ last.key \in last.todo
                  /\ last.nw = Cardinality(Toggled(last)) + 1
                  /\ last.err = IF last.failed = "write" THEN ErrWrite ELSE last.pr.err
            /\ last.nw > 0 => last.cmd = OutputParametersCmd(last.key, m[last.key])
            /\ last.nr >= last.nw - (IF last.failed = "write" THEN 1 ELSE 0)
            /\ last.nr <= 2 * last.nw
            /\ \A k \in applied : (k \in dev[last.h].enabled) <=> m[k]

C13_Witness ==
    /\ last.by # NoOne /\ last.op = "OutputParameters" /\ last.err = ErrReadError
    /\ last.nw = 2 /\ Cardinality(DOMAIN last.arg.m) = 4
    /\ \E k \in Toggled(last) : last.arg.m[k] /\ k \in dev[last.h].enabled
    /\ \E k \in last.todo \ {last.key} : last.arg.m[k] /\ k \notin dev[last.h].enabled


(***************************************************************************)
(* The guard after a call has returned (SpecSeq).                          *)
(***************************************************************************)
\* the callers that are inside a public operation of handle h
Executing(h) == {c \in Callers : pc[c] # "idle" /\ call[c].h = h}

\* C14: whenever no public operation is executing on a handle, the handle's
\* guard is free, whatever the operations before returned; and the guard is
\* only ever held by a caller that is between the Lock and the return of a
\* guarded operation of that handle.
C14_GuardReleased ==
    \A h \in Handles :
        /\ Executing(h) = {} => mtx[h] = NoOne
        /\ mtx[h] # NoOne =>
              mtx[h] \in Executing(h) /\ pc[mtx[h]] \in {"write", "read", "reread"}

C14_Witness ==
    /\ last.by # NoOne /\ last.op = "GetStatus" /\ last.err = ErrParseResponse
    /\ Executing(last.h) = {} /\ mtx[last.h] = NoOne


(***************************************************************************)
(* Conductivity.GetValue (SpecSeq).                                        *)
(***************************************************************************)
\* GetValue has returned nil, and its R was answered with status 1 by the
\* device's own reply
GetValueReturned ==
    /\ last.by # NoOne /\ last.h = "cond" /\ last.op = "GetValue" /\ last.err = Nil
    /\ last.genuine /\ last.sts \in {<<StatusOK>>, <<StatusPending, StatusOK>>}

\* C15, as claimed: whenever GetValue returns without an error, the number it
\* returns is the reading the device reported for the DefaultMeasurement
\* channel in that read.
C15_AsClaimed ==
    GetValueReturned =>
        /\ \E i \in 1..Len(last.devOrder) : last.devOrder[i] = DefaultMeasurement
        /\ last.val = <<ParseFloat(Reading(DefaultMeasurement)).val>>


(***************************************************************************)
(* GetOutputParameters' reply (SpecRead).                                  *)
(***************************************************************************)
\* the channel a token of the reply names: NoKey when it names none
ChannelNamed(t) ==
    CASE t = <<69, 67>>     -> EC
      [] t = <<84, 68, 83>> -> TDS
      [] t = <<83>>         -> Salinity
      [] t = <<83, 71>>     -> SpecificGravity
      [] OTHER              -> NoKey

\* the comma-separated tokens of a reply ?O,<csv>
TokensOf(payload) == Split(SubSeq(payload, 4, Len(payload)))

\* GetOutputParameters has read a reply ?O,<csv>
OutputReplyRead(F) ==
    /\ F.by # NoOne /\ F.h = "cond" /\ F.op = "GetOutputParameters"
    /\ F.pr.set /\ F.pr.err = Nil
    /\ Len(F.pr.val) >= 3 /\ SubSeq(F.pr.val, 1, 3) = <<63, 79, 44>>

\* C16: when the reply is ?O,<csv>, GetOutputParameters fails exactly when
\* one of the comma-separated tokens is not EC, TDS, S or SG, and then it
\* returns no list; otherwise it returns the channels the tokens name, one
\* for each token, in the order of the tokens.
C16_ReplyOrder ==
    OutputReplyRead(last) =>
        LET toks == TokensOf(last.pr.val)
            unknown == \E i \in 1..Len(toks) : ChannelNamed(toks[i]) = NoKey
        IN  /\ (last.err # Nil) <=> unknown
            /\ unknown => last.val = NoVal
            /\ ~unknown => last.val = [i \in 1..Len(toks) |-> ChannelNamed(toks[i])]

C16_Witness ==
    /\ OutputReplyRead(last)
    /\ last.pr.val = <<63, 79, 44, 83, 71, 44, 69, 67>>
    /\ last.val = <<SpecificGravity, EC>> /\ last.err = Nil

C16_WitnessFails ==
    /\ OutputReplyRead(last) /\ last.err = ErrParseOutputParam
    /\ \E i \in 1..Len(TokensOf(last.pr.val)) : ChannelNamed(TokensOf(last.pr.val)[i]) # NoKey


(***************************************************************************)
(* The two tables (SpecSeq).                                               *)
(***************************************************************************)
\* keys and tokens to look up: the channels and the tokens of the tables,
\* and others
SomeKeys == Channels \cup {BadKey, NoKey}
SomeTokens ==
    {<<69, 67>>, <<84, 68, 83>>, <<83>>, <<83, 71>>,      \* EC TDS S SG
     <<>>, <<88, 88>>, <<101, 99>>, <<69>>, <<83, 71, 32>>, <<69, 67, 44, 83>>}
\* with them, the keys of the map and the tokens of the reply of the call
\* that has just returned
TokenKeys ==
    {k \in SomeKeys \cup DOMAIN last.arg.m : conductivityMeasurementToOutputParam(k).ok}
ParamKeys ==
    LET split == Split(last.pr.val)
    IN  {t \in SomeTokens \cup {split[i] : i \in 1..Len(split)} :
            outputParamToConductivityMeasurement(t).ok}

\* C17: the two tables are each other's inverse.  Every channel's token maps
\* back to the channel, every token's channel maps back to the token, and
\* each table has four entries: the four channels, the four tokens.
C17_Bijection ==
    /\ TokenKeys = Channels /\ Cardinality(TokenKeys) = 4
    /\ ParamKeys = {<<69, 67>>, <<84, 68, 83>>, <<83>>, <<83, 71>>}
    /\ Cardinality(ParamKeys) = 4
    /\ \A p \in TokenKeys :
          LET t == conductivityMeasurementToOutputParam(p).tok
          IN  t \in ParamKeys /\ outputParamToConductivityMeasurement(t).p = p
    /\ \A t \in ParamKeys :
          LET p == outputParamToConductivityMeasurement(t).p
          IN  p \in TokenKeys /\ conductivityMeasurementToOutputParam(p).tok = t

\* both tables have been gone through: OutputParameters enabled the four
\* channels, and GetOutputParameters read them back
C17_Witness ==
    /\ last.by # NoOne /\ last.op = "GetOutputParameters" /\ last.err = Nil
    /\ last.prev.set /\ last.prev.m = allOn
    /\ last.val = <<EC, TDS, Salinity, SpecificGravity>>


(***************************************************************************)
(* The guard over OutputParameters' loop (Spec).                           *)
(***************************************************************************)
\* caller c is inside OutputParameters, between its Lock and its return
InLoop(c) == pc[c] \in {"write", "read", "reread"} /\ call[c].inner = "OutputParameters"

\* no caller but c makes a step of an operation of handle h
OthersWait(c, h) ==
    \A d \in Callers \ {c} :
        /\ call[d].h = h => pc'[d] = pc[d] /\ call'[d].nw = call[d].nw
                                           /\ call'[d].nr = call[d].nr
        /\ call'[d].h = h => call'[d].nw = call[d].nw /\ call'[d].nr = call[d].nr

\* C18: while a caller is inside OutputParameters, from the write of its
\* first channel to the read of its last, it holds the handle's guard, and
\* no other caller writes to or reads from the transport for an operation of
\* the same handle.
C18_LoopExclusive ==
    [][\A c \in Callers :
          InLoop(c) => mtx[call[c].h] = c /\ OthersWait(c, call[c].h)]_vars

\* between two channels of a caller's OutputParameters, another caller's
\* GetAllValues waits for the guard with its R still to write
C18_Witness ==
    \E c, d \in Callers :
        /\ c # d /\ InLoop(c) /\ pc[c] = "write" /\ call[c].nw = 1
        /\ pc[d] = "enter" /\ call[d].h = call[c].h /\ call[d].op = "GetAllValues"
        /\ call[d].inner = "GetRawValue"


(***************************************************************************)
(* GetAllValues' two fetches (SpecRead).                                   *)
(***************************************************************************)
\* s holds ?O, somewhere
HasOutputReply(s) == \E i \in 1..(Len(s) - 2) : SubSeq(s, i, i + 2) = <<63, 79, 44>>

\* the error of the fetch that frame F records: of its write, of its read
\* cycle, or (the O,? fetch) of the parse of its reply
FetchError(F) ==
    IF F.failed = "write" THEN ErrWrite
    ELSE IF F.pr.err # Nil THEN F.pr.err
    ELSE IF F.inner # "GetOutputParameters" THEN Nil
    ELSE IF ~HasOutputReply(F.pr.val) THEN ErrParseResponse
    ELSE LET at == Min({i \in 1..(Len(F.pr.val) - 2) :
                           SubSeq(F.pr.val, i, i + 2) = <<63, 79, 44>>})
             toks == Split(SubSeq(F.pr.val, at + 3, Len(F.pr.val)))
         IN  IF \E i \in 1..Len(toks) : ChannelNamed(toks[i]) = NoKey
             THEN ErrParseOutputParam
             ELSE Nil

\* C19: GetAllValues goes on to its R only after an O,? fetch that met no
\* failure and gave a list of channels.  When it returns from the O,? fetch
\* it returns the fetch's error (of the write, of the read cycle, of an
\* unmatched reply or of an unknown token), it has written O,? and nothing
\* else, and it returns no MeasurementSet; when the R fetch fails it returns
\* that error and no MeasurementSet.
C19_SubStepAborts ==
    /\ \A c \in Callers :
          call[c].op = "GetAllValues" /\ call[c].inner = "GetRawValue" =>
              /\ call[c].failed = "" /\ call[c].params # <<>>
              /\ \A i \in 1..Len(call[c].params) : call[c].params[i] \in Channels
    /\ last.by # NoOne /\ last.op = "GetAllValues" =>
          /\ last.inner = "GetOutputParameters" =>
                /\ last.err # Nil /\ last.err = FetchError(last)
                /\ last.nw = 1 /\ last.cmd = CmdOQ /\ last.val = NoVal
          /\ last.inner = "GetRawValue" =>
                /\ last.nw = 2 /\ last.cmd = CmdR
                /\ FetchError(last) # Nil =>
                      last.err = FetchError(last) /\ last.val = NoVal
          /\ last.err # Nil => last.val = NoVal

C19_Witness ==
    /\ last.by # NoOne /\ last.op = "GetAllValues" /\ last.inner = "GetOutputParameters"
    /\ last.err = ErrParseOutputParam /\ last.nw = 1 /\ last.nr = 2

C19_WitnessRead ==
    /\ last.by # NoOne /\ last.op = "GetAllValues" /\ last.inner = "GetRawValue"
    /\ last.err = ErrNoData /\ last.params = <<EC, TDS>>


(***************************************************************************)
(* Two handles (Spec: the handles cond and ph).                            *)
(***************************************************************************)
\* the handle that is not h
OtherHandle(h) == CHOOSE g \in Handles : g # h

\* C20: the guard excludes per handle only.  While a caller is between the
\* write and the read of an operation of one handle, holding that handle's
\* guard, an idle caller can take the other handle's guard if that one is
\* free, and start an operation there; and all callers that are between a
\* write and a read at the same time are on different handles.
C20_PerHandleOnly ==
    /\ \A c, d \in Callers :
          /\ c # d /\ pc[c] \in {"read", "reread"} /\ pc[d] = "idle" /\ Quiet
          /\ mtx[OtherHandle(call[c].h)] = NoOne
          => ENABLED Start(d, OtherHandle(call[c].h), "ClearCalibration", NoArg, NoKey, NoPrev)
    /\ \A c, d \in Callers :
          c # d /\ pc[c] \in {"read", "reread"} /\ pc[d] \in {"read", "reread"}
          => call[c].h # call[d].h

\* handle ph's write went out between handle cond's write and its read
C20_Witness ==
    \E c, d \in Callers :
        /\ pc[c] = "read" /\ call[c].h = "cond" /\ mtx["cond"] = c /\ call[c].nr = 0
        /\ pc[d] = "read" /\ call[d].h = "ph" /\ mtx["ph"] = d /\ call[d].nr = 0


(***************************************************************************)
(* The base ClearCalibration, as the conductivity handle has it (SpecSeq). *)
(***************************************************************************)
\* the base ClearCalibration has returned
BaseClearReturned ==
    last.by # NoOne /\ last.h = "cond" /\ last.op = "ClearCalibration"

\* C21, as claimed: the base ClearCalibration writes CAL,clear, hands
\* PerformRead a settle time of 300 ms, and returns nil exactly when the
\* write succeeds and the read cycle ends in a status that is a success.
C21_AsClaimed ==
    BaseClearReturned =>
        /\ last.nw = 1 /\ last.cmd = CmdCalClear
        /\ last.nr > 0 => last.wait = 300
        /\ last.err = Nil <=>
              /\ last.failed # "write" /\ last.sts # <<>>
              /\ last.sts[Len(last.sts)] \notin {StatusError, StatusPending, StatusNoData, ReadFailed}
              /\ last.err # Panic


(***************************************************************************)
(* Conductivity.Calibration's command and settle time (SpecSeq).           *)
(***************************************************************************)
CondCalibrationReturned ==
    last.by # NoOne /\ last.h = "cond" /\ last.op = "Calibration"

\* the whole part of v thousandths, and its decimal digits with the sign
Truncated(v) == IF v >= 0 THEN v \div 1000 ELSE -((-v) \div 1000)
Decimal(n) == IF n < 0 THEN <<45>> \o Digits(-n) ELSE Digits(n)

After(d) == IF pc'[d] = "idle" /\ last'.by = d THEN last' ELSE call'[d]

\* the step is a write, a read, of caller d
WriteStep(d) == After(d).nw = call[d].nw + 1
ReadStep(d) == After(d).nr = call[d].nr + 1

\* the shape of the block of transport calls caller d is in: a step of d is
\* at most one transport call.  A write opens a block: the caller holds the
\* guard and no caller of the handle is between a write and its last read.
\* A read is the caller's own, after its write, with no other caller of the
\* handle between a write and a read; a first read has no read of the block
\* before it, a second one has the status 254 before it, and there is no
\* third.  After a transport call that failed the caller has returned.
BlockShape(d) ==
    LET h == call[d].h
        A == After(d)
    IN  /\ A.nw - call[d].nw \in {0, 1} /\ A.nr - call[d].nr \in {0, 1}
        /\ ~(WriteStep(d) /\ ReadStep(d))
        /\ WriteStep(d) =>
              /\ pc[d] = "write" /\ mtx[h] = d /\ InFlight(h) = {}
              /\ call[d].sts = <<>>
        /\ ReadStep(d) =>
              /\ pc[d] \in {"read", "reread"} /\ mtx[h] = d /\ InFlight(h) = {d}
              /\ call[d].nw > 0 /\ call[d].failed = ""
              /\ pc[d] = "read" => call[d].sts = <<>>
              /\ pc[d] = "reread" => call[d].sts = <<StatusPending>>
              /\ pc'[d] = "reread" => pc[d] = "read" /\ A.sts = <<StatusPending>>
        /\ A.failed \in {"write", "read"} => pc'[d] = "idle"

\* C23: for every interleaving of the callers, the transport calls made for
\* a handle are blocks of a write and one or two reads of the same caller
\* and operation, the second read made only after a first one with status
\* 254; no read is made without the operation's write right before its
\* block, and a transport call that fails is the last of its block.
C23_WireBlocks == [][\A d \in Callers : BlockShape(d)]_vars

\* a block of three calls is complete while another caller of the handle
\* waits to write
C23_Witness ==
    \E c, d \in Callers :
        /\ c # d /\ last.by = c /\ last.h = "cond" /\ last.sts = <<StatusPending, StatusOK>>
        /\ last.nw = 1 /\ last.nr = 2
        /\ pc[d] = "enter" /\ call[d].h = "cond" /\ call[d].nw = 1


(***************************************************************************)
(* PerformRead on every frame (SpecRead).                                  *)
(***************************************************************************)
\* PerformRead has returned a payload or an error
Returned(F) == F.pr.set => F.pr.err # Panic

\* C24, as claimed: whatever frame the transport returns, PerformRead
\* returns a payload or an error: it never panics, and the process is never
\* brought down from inside a guarded operation.
C24_AsClaimed ==
    /\ ~crashed
    /\ Returned(last) /\ \A c \in Callers : Returned(call[c])


EnabledNow(p) == p \in dev["cond"].enabled
EnabledNext(p) == p \in dev'["cond"].enabled

\* the step changes the enablement of channel p only as the write of an
\* OutputParameters call that has p in hand, and to what the map says
ToggledByLoop(p) ==
    EnabledNext(p) # EnabledNow(p) =>
        \E c \in Callers :
            /\ pc[c] = "write" /\ call[c].inner = "OutputParameters"
            /\ call[c].key = p /\ p \in DOMAIN call[c].arg.m
            /\ EnabledNext(p) <=> call[c].arg.m[p]
            /\ WriteStep(c)

\* the call of OutputParameters that returns nil in this step has left each
\* channel of its map as the map says, with one write and one read cycle
\* for each entry
AllToggled ==
    last'.by # NoOne /\ last'.inner = "OutputParameters" /\ last'.err = Nil =>
        LET m == last'.arg.m
        IN  /\ \A k \in DOMAIN m : k \in Channels /\ (EnabledNext(k) <=> m[k])
            /\ last'.nw = Cardinality(DOMAIN m)
            /\ last'.nr >= last'.nw /\ last'.nr <= 2 * last'.nw

\* C26: in whatever order OutputParameters takes the entries of its map, a
\* call that returns nil leaves every channel of the map enabled exactly if
\* the map says so, leaves the channels that are not in the map as they
\* were (no step of the call changes them), and makes one write and one
\* read cycle for each entry.
C26_OrderIndependent == [][AllToggled /\ \A p \in Channels : ToggledByLoop(p)]_vars

\* the four channels set in an order that ends with EC
C26_Witness ==
    /\ last.by # NoOne /\ last.op = "OutputParameters" /\ last.err = Nil
    /\ last.arg.m = MapOf(Channels, {TDS, SpecificGravity}) /\ last.key = EC
    /\ last.nw = 4 /\ dev["cond"].enabled = {TDS, SpecificGravity}

\* and in an order that ends with SpecificGravity
C26_WitnessOther ==
    /\ last.by # NoOne /\ last.op = "OutputParameters" /\ last.err = Nil
    /\ last.arg.m = MapOf(Channels, {TDS, SpecificGravity}) /\ last.key = SpecificGravity
    /\ last.nw = 4 /\ dev["cond"].enabled = {TDS, SpecificGravity}


=============================================================================
